---- MODULE Spec2Model ----
(***************************************************************************)
(* Model of robot.running.builder.builders: TestSuiteBuilder.build and the *)
(* SuiteStructureParser visitor that builds the suite tree while an         *)
(* external depth-first traversal calls visit_file / start_directory /      *)
(* end_directory.                                                           *)
(*                                                                          *)
(* Encoding of values:                                                      *)
(*   - a path is a sequence of components; <<>> stands for None, an input   *)
(*     path is <<i>> (its position among the arguments), the j-th entry of  *)
(*     directory d is d \o <<j>> and the init file of d is d \o <<0>>;      *)
(*   - a name is a sequence too, <<>> being the empty string;               *)
(*   - rpa is "None", "tasks" (True) or "tests" (False);                    *)
(*   - suite objects live in the heap `suites`, indexed by creation order,  *)
(*     so that the stack and the tree can refer to the same object;         *)
(*   - TestDefaults objects live in the heap `scopes`; a scope is the set   *)
(*     of settings it holds;                                                *)
(*   - a string that is normalised (an extension, a suffix) is a sequence   *)
(*     of one-character strings, <<>> being '';                             *)
(*   - a dict is a function, its keys the DOMAIN; the key None of the       *)
(*     parser registry is NoneKey.                                          *)
(***************************************************************************)
EXTENDS Integers, Sequences, FiniteSets, TLC

MaxPaths == 2
MaxNodes == 5
MaxTests == 1
MaxExtensions == 2
MaxParsers == 2

\* The settings a parser may write to the TestDefaults object it is given.
Settings == {"tags"}

None == "None"
Modes == {"tests", "tasks"}
Rpa == {None} \cup Modes

VARIABLES
    paths,              \* the *paths argument of build: records [exists, is_file]
    self_rpa,           \* TestSuiteBuilder.rpa
    included_suites,    \* TestSuiteBuilder.included_suites is non-empty
    allow_empty_suite,  \* TestSuiteBuilder.allow_empty_suite
    pc,                 \* "start", "visit", "done" (suite returned), "failed" (DataError)
    suites,             \* heap of TestSuite objects
    suite,              \* SuiteStructureParser.suite: heap index, 0 for None
    stack,              \* SuiteStructureParser._stack: <<suite, defaults>> heap indices
    scopes,             \* heap of TestDefaults objects: the settings each one holds
    rpa,                \* SuiteStructureParser.rpa
    rpa_given,          \* SuiteStructureParser._rpa_given
    error,              \* the DataError that reached the caller
    trace,              \* history: the traversal events processed so far
    unpruned,           \* history: the heap as it was when pruning started
    included_extensions,\* TestSuiteBuilder.included_extensions
    custom_parsers_arg, \* the custom_parsers argument: the extensions each parser declares
    suffix,             \* p.suffix of each of the paths
    standard_parsers,   \* TestSuiteBuilder.standard_parsers
    custom_parsers,     \* TestSuiteBuilder.custom_parsers
    parsers             \* SuiteStructureParser.parsers

registry_vars == <<included_extensions, custom_parsers_arg, suffix, standard_parsers,
                   custom_parsers, parsers>>

vars == <<paths, self_rpa, included_suites, allow_empty_suite, pc, suites, suite,
          stack, scopes, rpa, rpa_given, error, trace, unpruned, registry_vars>>

\* DataError: kind "nopaths" (line 143), "missing" (151), "parse" (224, 236, a
\* parser's own error), "conflict" (248, re-raised at 224), "empty" (170).
NoError == [kind |-> "none", source |-> <<>>, this |-> None, that |-> None,
            paths |-> <<>>, name |-> <<>>]

----------------------------------------------------------------------------
(* Strings and the parser registry *)

robot == <<"r", "o", "b", "o", "t">>
rst == <<"r", "s", "t">>
rest == <<"r", "e", "s", "t">>
rbt == <<"r", "b", "t">>
json == <<"j", "s", "o", "n">>

Uppers == <<"A", "B", "C", "D", "E", "F", "G", "H", "I", "J", "K", "L", "M",
            "N", "O", "P", "Q", "R", "S", "T", "U", "V", "W", "X", "Y", "Z">>
Lowers == <<"a", "b", "c", "d", "e", "f", "g", "h", "i", "j", "k", "l", "m",
            "n", "o", "p", "q", "r", "s", "t", "u", "v", "w", "x", "y", "z">>

\* str.lower
lower(str) ==
    [i \in 1..Len(str) |->
        IF \E k \in 1..Len(Uppers) : Uppers[k] = str[i]
        THEN Lowers[CHOOSE k \in 1..Len(Uppers) : Uppers[k] = str[i]]
        ELSE str[i]]

\* str.lstrip('.')
RECURSIVE lstrip(_)
lstrip(str) ==
    IF str # <<>> /\ str[1] = "." THEN lstrip(Tail(str)) ELSE str

NoneKey == <<"None">>

RobotParser == [kind |-> "RobotParser", id |-> 0]
RestParser == [kind |-> "RestParser", id |-> 0]
JsonParser == [kind |-> "JsonParser", id |-> 0]
NoInitFileDirectoryParser == [kind |-> "NoInitFileDirectoryParser", id |-> 0]

\* CustomParser(parser) for the i-th of the parsers given
CustomParser(i) == [kind |-> "CustomParser", id |-> i]

\* CustomParser.extensions: the extensions the parser declares, lower-cased
\* and without leading dots.
extensions(declared) == {lstrip(lower(e)) : e \in declared}

\* SuiteStructure.extension of a file with the suffix e
extension(e) == lstrip(lower(e))

\* d[k] = v
Put(d, k, v) == (k :> v) @@ d

\* TestSuiteBuilder._get_standard_parsers
get_standard_parsers ==
    Put(Put(Put(Put(Put(<<>>, robot, RobotParser), rst, RestParser), rest, RestParser),
            rbt, JsonParser), json, JsonParser)

\* Mutant of register: an extension that is already claimed keeps its parser.
register_first_wins(d, exts, parser) ==
    [e \in DOMAIN d \cup exts |-> IF e \in DOMAIN d THEN d[e] ELSE parser]

\* TestSuiteBuilder._get_custom_parsers, lines 121-122 for the i-th parser:
\* every extension of the parser is set to it.
register(d, exts, parser) ==
    [e \in DOMAIN d \cup exts |-> IF e \in exts THEN parser ELSE d[e]]

\* TestSuiteBuilder._get_custom_parsers: the loop over parsers[i..]
RECURSIVE get_custom_parsers_from(_, _, _)
get_custom_parsers_from(d, arg, i) ==
    IF i > Len(arg) THEN d
    ELSE get_custom_parsers_from(register(d, extensions(arg[i]), CustomParser(i)),
                                 arg, i + 1)

get_custom_parsers(arg) == get_custom_parsers_from(<<>>, arg, 1)

\* Mutant of normalize: the extension is used as it was given.
normalize_not(ext) == ext

\* _get_parsers, line 160
normalize(ext) == lower(lstrip(ext))

\* Mutant of add_parser: the extension is set whether or not it is there yet.
add_parser_always(d, standard, ext) ==
    Put(d, ext, IF ext \in DOMAIN standard THEN standard[ext] ELSE standard[robot])

\* _get_parsers, lines 161-162
add_parser(d, standard, ext) ==
    IF ext \notin DOMAIN d
    THEN Put(d, ext, IF ext \in DOMAIN standard THEN standard[ext] ELSE standard[robot])
    ELSE d

\* _get_parsers, the loop of lines 158-162 over exts[i..]
RECURSIVE get_parsers_from(_, _, _, _)
get_parsers_from(d, standard, exts, i) ==
    IF i > Len(exts) THEN d
    ELSE get_parsers_from(add_parser(d, standard, normalize(exts[i])), standard, exts, i + 1)

\* [p.suffix for p in paths if p.is_file()], line 159
file_suffixes(ps, sfx) ==
    LET IsFile(i) == ps[i].is_file
        files == SelectSeq([i \in 1..Len(ps) |-> i], IsFile)
    IN  [j \in 1..Len(files) |-> sfx[files[j]]]

\* TestSuiteBuilder._get_parsers
get_parsers(custom, standard, included, ps, sfx) ==
    get_parsers_from(custom @@ (NoneKey :> NoInitFileDirectoryParser), standard,
                     included \o file_suffixes(ps, sfx), 1)

----------------------------------------------------------------------------

PathInputs == UNION {[1..n -> [exists : BOOLEAN, is_file : BOOLEAN]] : n \in 0..MaxPaths}

\* TestSuiteBuilder.__init__, and the arguments build is called with.
Init ==
    /\ paths \in PathInputs
    /\ self_rpa \in Rpa
    /\ included_suites \in BOOLEAN
    /\ allow_empty_suite \in BOOLEAN
    /\ pc = "start"
    /\ suites = <<>>
    /\ suite = 0
    /\ stack = <<>>
    /\ scopes = <<>>
    /\ rpa = None
    /\ rpa_given = FALSE
    /\ error = NoError
    /\ trace = <<>>
    /\ unpruned = <<>>
    /\ included_extensions = <<<<".">> \o robot, <<".">> \o rbt>>
    /\ custom_parsers_arg = <<>>
    /\ suffix = [i \in 1..Len(paths) |-> IF paths[i].is_file THEN <<".">> \o robot ELSE <<>>]
    /\ standard_parsers = get_standard_parsers
    /\ custom_parsers = get_custom_parsers(custom_parsers_arg)
    /\ parsers = <<>>

----------------------------------------------------------------------------
(* Helpers over the heap *)

Last(s) == s[Len(s)]

\* Mutant of Front: the first element is dropped instead of the last.
Front_dropping_first(s) == SubSeq(s, 2, Len(s))

Front(s) == SubSeq(s, 1, Len(s) - 1)

RECURSIVE SumSeq(_)
SumSeq(s) == IF s = <<>> THEN 0 ELSE s[1] + SumSeq(Tail(s))

\* TestSuite.test_count
RECURSIVE test_count(_, _)
test_count(h, n) ==
    h[n].tests + SumSeq([i \in 1..Len(h[n].suites) |-> test_count(h, h[n].suites[i])])

\* TestSuite.has_tests
has_tests(h, n) == test_count(h, n) > 0

\* The suites of the tree below (and including) n.
RECURSIVE Tree(_, _)
Tree(h, n) ==
    {n} \cup UNION {Tree(h, h[n].suites[i]) : i \in 1..Len(h[n].suites)}

----------------------------------------------------------------------------
(* The traversal that drives the visitor (SuiteStructure.visit) *)

multi_source == Len(paths) > 1

\* True when the next node entered is one of the input paths themselves.
AtTopLevel ==
    IF multi_source THEN Len(stack) = 1 ELSE suite = 0

\* Input paths whose node has not been entered yet.
PathsLeft ==
    IF suite = 0 THEN Len(paths)
    ELSE IF multi_source THEN Len(paths) - Len(suites[suite].suites)
    ELSE 0

\* Position among the input paths of the next top-level node.
NextPath == Len(paths) - PathsLeft + 1

\* structure.source of the node entered next.
NextSource ==
    IF suite = 0 /\ multi_source THEN <<>>
    ELSE IF AtTopLevel THEN <<NextPath>>
    ELSE suites[Last(stack)[1]].source \o <<Len(suites[Last(stack)[1]].suites) + 1>>

\* The walker has a node to enter: the root, the next input path, or an entry
\* of the innermost open directory (as long as the model has room for it).
CanEnter(is_file) ==
    IF suite = 0 THEN
        IF multi_source THEN ~is_file ELSE paths[1].is_file = is_file
    ELSE IF stack = <<>> THEN FALSE
    ELSE IF AtTopLevel THEN PathsLeft > 0 /\ paths[NextPath].is_file = is_file
    ELSE Len(suites) + PathsLeft < MaxNodes

TraversalDone == suite # 0 /\ stack = <<>>

----------------------------------------------------------------------------
(* Parsers: what parse_suite_file and parse_init_file may return *)

ParseFailed == [ok |-> FALSE, tests |-> 0, rpa |-> None]

\* Parser.parse_suite_file: fails with a DataError, or returns a suite with
\* some tests and the mode its headers declare; a suite that has tests or
\* tasks declares which of the two they are.
parse_suite_file ==
    {ParseFailed} \cup
    {o \in [ok : {TRUE}, tests : 0..MaxTests, rpa : Rpa] :
        o.tests > 0 => o.rpa \in Modes}

\* Parser.parse_init_file: directories declare no mode and hold no tests; only
\* the parser of an init file can fail.
parse_init_file(init) ==
    {[ok |-> TRUE, tests |-> 0, rpa |-> None]} \cup
    (IF init THEN {ParseFailed} ELSE {})

\* TestSuite.name_from_source, on the encoding of paths
name_from_source(source) ==
    IF source = <<>> THEN <<>> ELSE <<Last(source)>>

NewSuite(is_dir, source, tests, m) ==
    [is_dir |-> is_dir, source |-> source, name |-> name_from_source(source),
     tests |-> tests, rpa |-> m, suites |-> <<>>]

----------------------------------------------------------------------------
(* TestSuiteBuilder *)

\* Mutant of non_existing: only the first missing path is reported.
non_existing_first_only(ps) ==
    LET Missing(i) == ~ps[i].exists
        all == SelectSeq([i \in 1..Len(ps) |-> i], Missing)
    IN  IF all = <<>> THEN <<>> ELSE << <<all[1]>> >>

\* seq2str's argument at line 151: the paths that do not exist, in input order
non_existing(ps) ==
    LET Missing(i) == ~ps[i].exists
    IN  [j \in 1..Len(SelectSeq([i \in 1..Len(ps) |-> i], Missing)) |->
            <<SelectSeq([i \in 1..Len(ps) |-> i], Missing)[j]>>]

\* TestSuiteBuilder._normalize_paths: the DataError it raises, NoError when
\* it returns the paths.
normalize_paths(ps) ==
    IF ps = <<>> THEN [NoError EXCEPT !.kind = "nopaths"]
    ELSE IF non_existing(ps) # <<>>
         THEN [NoError EXCEPT !.kind = "missing", !.paths = non_existing(ps)]
    ELSE NoError

\* TestSuiteBuilder._validate_not_empty: the heap index of the suite the
\* DataError names, 0 when no error is raised.
validate_not_empty(h, n, multi) ==
    IF multi THEN
        LET Empty(c) == ~has_tests(h, c)
            empties == SelectSeq(h[n].suites, Empty)
        IN  IF empties = <<>> THEN 0 ELSE empties[1]
    ELSE IF ~has_tests(h, n) THEN n
    ELSE 0

\* TestSuite.remove_empty_suites (EmptySuiteRemover.end_suite on every suite)
remove_empty_suites(h, root, preserve_direct_children) ==
    LET NotEmpty(c) == test_count(h, c) > 0
    IN  [n \in DOMAIN h |->
            IF n = root /\ preserve_direct_children THEN h[n]
            ELSE [h[n] EXCEPT !.suites = SelectSeq(@, NotEmpty)]]

\* Mutant of multi_source_arg: the root itself is validated whatever the
\* number of paths.
multi_source_arg_never(ps) == FALSE

\* build, line 137: multi_source=len(paths) > 1
multi_source_arg(ps) == Len(ps) > 1

\* Mutants of preserve_direct_children: the root's children are pruned like
\* any others, or are never pruned.
preserve_direct_children_never(ps) == FALSE

preserve_direct_children_always(ps) == TRUE

\* build, line 138: preserve_direct_children=len(paths) > 1
preserve_direct_children(ps) == Len(ps) > 1

\* build, lines 130-135: validate the paths and construct the visitor.
BuildStart ==
    /\ pc = "start"
    /\ IF normalize_paths(paths) # NoError
       THEN /\ pc' = "failed"
            /\ error' = normalize_paths(paths)
            /\ UNCHANGED <<rpa, rpa_given, parsers>>
       ELSE /\ pc' = "visit"
            /\ parsers' = get_parsers(custom_parsers, standard_parsers,
                                      included_extensions, paths, suffix)
            /\ rpa' = self_rpa
            /\ rpa_given' = (self_rpa # None)
            /\ UNCHANGED error
    /\ UNCHANGED <<paths, self_rpa, included_suites, allow_empty_suite, suites,
                   suite, stack, scopes, trace, unpruned, included_extensions,
                   custom_parsers_arg, suffix, standard_parsers, custom_parsers>>

----------------------------------------------------------------------------
(* SuiteStructureParser *)

\* Mutants of validate_execution_mode: a differing mode replaces the running
\* one instead of raising; the override is not consulted; the override sets
\* the running mode but is not written to the suite.
validate_execution_mode_last_wins(given, running, m) ==
    IF given THEN [conflict |-> FALSE, suite_rpa |-> running, rpa |-> running]
    ELSE IF m = None THEN [conflict |-> FALSE, suite_rpa |-> m, rpa |-> running]
    ELSE [conflict |-> FALSE, suite_rpa |-> m, rpa |-> m]

validate_execution_mode_not_given(given, running, m) ==
    IF m = None THEN [conflict |-> FALSE, suite_rpa |-> m, rpa |-> running]
    ELSE IF running = None THEN [conflict |-> FALSE, suite_rpa |-> m, rpa |-> m]
    ELSE IF running # m THEN [conflict |-> TRUE, suite_rpa |-> m, rpa |-> running]
    ELSE [conflict |-> FALSE, suite_rpa |-> m, rpa |-> running]

validate_execution_mode_no_overwrite(given, running, m) ==
    IF given THEN [conflict |-> FALSE, suite_rpa |-> m, rpa |-> running]
    ELSE IF m = None THEN [conflict |-> FALSE, suite_rpa |-> m, rpa |-> running]
    ELSE IF running = None THEN [conflict |-> FALSE, suite_rpa |-> m, rpa |-> m]
    ELSE IF running # m THEN [conflict |-> TRUE, suite_rpa |-> m, rpa |-> running]
    ELSE [conflict |-> FALSE, suite_rpa |-> m, rpa |-> running]

\* Mutant of validate_execution_mode: a file that declares no mode resets the
\* running mode.
validate_execution_mode_reset(given, running, m) ==
    IF given THEN [conflict |-> FALSE, suite_rpa |-> running, rpa |-> running]
    ELSE IF m = None THEN [conflict |-> FALSE, suite_rpa |-> m, rpa |-> m]
    ELSE IF running = None THEN [conflict |-> FALSE, suite_rpa |-> m, rpa |-> m]
    ELSE IF running # m THEN [conflict |-> TRUE, suite_rpa |-> m, rpa |-> running]
    ELSE [conflict |-> FALSE, suite_rpa |-> m, rpa |-> running]

\* SuiteStructureParser._validate_execution_mode for a suite declaring m:
\* the suite's mode and the parser's mode afterwards, or the conflict raised.
validate_execution_mode(given, running, m) ==
    IF given THEN [conflict |-> FALSE, suite_rpa |-> running, rpa |-> running]
    ELSE IF m = None THEN [conflict |-> FALSE, suite_rpa |-> m, rpa |-> running]
    ELSE IF running = None THEN [conflict |-> FALSE, suite_rpa |-> m, rpa |-> m]
    ELSE IF running # m THEN [conflict |-> TRUE, suite_rpa |-> m, rpa |-> running]
    ELSE [conflict |-> FALSE, suite_rpa |-> m, rpa |-> running]

\* The words of the conflict message (line 247): <<this, that>>
this_that(m) ==
    IF m = "tasks" THEN <<"tasks", "tests">> ELSE <<"tests", "tasks">>

\* Mutant of append_suite: the new suite is appended to the outermost open
\* directory.
append_suite_to_root(h, stk, n) ==
    [h EXCEPT ![stk[1][1]].suites = Append(@, n)]

\* Mutant of append_suite: the new suite is put in front of its siblings.
append_suite_in_front(h, stk, n) ==
    [h EXCEPT ![Last(stk)[1]].suites = <<n>> \o @]

\* self._stack[-1][0].suites.append(suite), lines 197 and 206
append_suite(h, stk, n) ==
    [h EXCEPT ![Last(stk)[1]].suites = Append(@, n)]

\* Lines 194-197 and 203-206: the first suite becomes the root, any other one
\* a child of the suite on top of the stack.
attach(h, root, stk, n) ==
    IF root = 0 THEN h ELSE append_suite(h, stk, n)

\* Mutant of end_directory_rpa: the mode of the first child that has one is
\* taken.
end_directory_rpa_first_set(h, n) ==
    LET HasMode(c) == h[c].rpa # None
        with_mode == SelectSeq(h[n].suites, HasMode)
    IN  IF h[n].rpa = None /\ with_mode # <<>> THEN h[with_mode[1]].rpa
        ELSE h[n].rpa

\* Mutant of end_directory_rpa: the last child's mode is taken.
end_directory_rpa_last_child(h, n) ==
    IF h[n].rpa = None /\ h[n].suites # <<>> THEN h[Last(h[n].suites)].rpa
    ELSE h[n].rpa

\* end_directory, lines 211-212: the mode of the popped suite afterwards
end_directory_rpa(h, n) ==
    IF h[n].rpa = None /\ h[n].suites # <<>> THEN h[h[n].suites[1]].rpa
    ELSE h[n].rpa

\* Mutant of parse: every suite is given the running mode.
parse_every_suite(h, root, running) ==
    [n \in DOMAIN h |-> [h[n] EXCEPT !.rpa = running]]

\* Mutant of parse: the root keeps the mode the traversal left on it.
parse_keeping_root(h, root, running) == h

\* parse, line 188: self.suite.rpa = self.rpa
parse(h, root, running) ==
    [h EXCEPT ![root].rpa = running]

\* SuiteStructureParser.parent_defaults: a scopes index, 0 for None
parent_defaults(stk) ==
    IF stk # <<>> THEN Last(stk)[2] ELSE 0

\* TestDefaults(parent): the settings of a new scope, those of its parent or
\* none.
TestDefaults(sc, parent) ==
    IF parent = 0 THEN {} ELSE sc[parent]

\* The parser writes the settings w to the scope d it was given.
write_defaults(sc, d, w) ==
    [sc EXCEPT ![d] = @ \cup w]

\* A traversal event: the suite created (0 if none), the structure's source,
\* the mode the parser returned ("error" if it failed), the scope given to
\* the parser and the settings that scope held before and after the parser ran.
Event(ev, node, source, declared, defaults, given, held) ==
    [ev |-> ev, node |-> node, source |-> source, declared |-> declared,
     defaults |-> defaults, given |-> given, held |-> held]

\* visit_file, with _build_suite_file and _validate_execution_mode; the
\* parser returns o and writes the settings w to the defaults it is given.
visit_file(o, w) ==
    /\ pc = "visit"
    /\ CanEnter(TRUE)
    /\ LET source == NextSource
           fresh == parent_defaults(stack) = 0
           defaults == IF fresh THEN Len(scopes) + 1 ELSE parent_defaults(stack)
           given == IF fresh THEN Append(scopes, TestDefaults(scopes, 0)) ELSE scopes
           v == validate_execution_mode(rpa_given, rpa, o.rpa)
           new == Len(suites) + 1
           parsed == NewSuite(FALSE, source, o.tests, o.rpa)
       IN  IF ~o.ok
           THEN /\ pc' = "failed"
                /\ error' = [NoError EXCEPT !.kind = "parse", !.source = source]
                /\ trace' = Append(trace, Event("file", 0, source, "error",
                                                defaults, given[defaults], given[defaults]))
                /\ scopes' = given
                /\ UNCHANGED <<suites, suite, rpa>>
           ELSE IF v.conflict
           THEN /\ pc' = "failed"
                /\ error' = [NoError EXCEPT !.kind = "conflict", !.source = source,
                                            !.this = this_that(o.rpa)[1],
                                            !.that = this_that(o.rpa)[2]]
                /\ suites' = Append(suites, parsed)
                /\ trace' = Append(trace, Event("file", new, source, o.rpa,
                                                defaults, given[defaults], given[defaults] \cup w))
                /\ scopes' = write_defaults(given, defaults, w)
                /\ UNCHANGED <<suite, rpa>>
           ELSE /\ suites' = attach(Append(suites, [parsed EXCEPT !.rpa = v.suite_rpa]),
                                     suite, stack, new)
                /\ suite' = IF suite = 0 THEN new ELSE suite
                /\ rpa' = v.rpa
                /\ trace' = Append(trace, Event("file", new, source, o.rpa,
                                                defaults, given[defaults], given[defaults] \cup w))
                /\ scopes' = write_defaults(given, defaults, w)
                /\ UNCHANGED <<pc, error>>
    /\ UNCHANGED <<paths, self_rpa, included_suites, allow_empty_suite, stack,
                   rpa_given, unpruned, registry_vars>>

\* Mutant of build_source: the directory is named even if it has an init file.
build_source_directory(init_file, source) == source

\* _build_suite_directory, line 228: structure.init_file or structure.source
build_source(init_file, source) ==
    IF init_file # <<>> THEN init_file ELSE source

\* start_directory, with _build_suite_directory; the parser returns o and
\* writes the settings w to the defaults it is given.
start_directory(init, o, w) ==
    /\ pc = "visit"
    /\ CanEnter(FALSE)
    /\ init => ~(suite = 0 /\ multi_source)
    /\ ~init => w = {}
    /\ LET is_multi_source == suite = 0 /\ multi_source
           source == NextSource
           init_file == IF init THEN source \o <<0>> ELSE <<>>
           defaults == Len(scopes) + 1
           given == Append(scopes, TestDefaults(scopes, parent_defaults(stack)))
           new == Len(suites) + 1
           parsed == NewSuite(TRUE, source, o.tests, o.rpa)
           built == IF is_multi_source
                    THEN [parsed EXCEPT !.name = <<>>, !.source = <<>>]
                    ELSE parsed
       IN  IF ~o.ok
           THEN /\ pc' = "failed"
                /\ error' = [NoError EXCEPT !.kind = "parse",
                                            !.source = build_source(init_file, source)]
                /\ trace' = Append(trace, Event("start", 0, source, "error",
                                                defaults, given[defaults], given[defaults]))
                /\ scopes' = given
                /\ UNCHANGED <<suites, suite, stack>>
           ELSE /\ suites' = attach(Append(suites, built), suite, stack, new)
                /\ suite' = IF suite = 0 THEN new ELSE suite
                /\ stack' = Append(stack, <<new, defaults>>)
                /\ trace' = Append(trace, Event("start", new, source, o.rpa,
                                                defaults, given[defaults], given[defaults] \cup w))
                /\ scopes' = write_defaults(given, defaults, w)
                /\ UNCHANGED <<pc, error>>
    /\ UNCHANGED <<paths, self_rpa, included_suites, allow_empty_suite, rpa,
                   rpa_given, unpruned, registry_vars>>

\* end_directory
end_directory ==
    /\ pc = "visit"
    /\ stack # <<>>
    /\ (multi_source /\ Len(stack) = 1) => PathsLeft = 0
    /\ LET n == Last(stack)[1]
       IN  /\ stack' = Front(stack)
           /\ suites' = [suites EXCEPT ![n].rpa = end_directory_rpa(suites, n)]
           /\ trace' = Append(trace, Event("end", n, suites[n].source, None,
                                           Last(stack)[2], scopes[Last(stack)[2]],
                                           scopes[Last(stack)[2]]))
    /\ UNCHANGED <<paths, self_rpa, included_suites, allow_empty_suite, pc, suite,
                   scopes, rpa, rpa_given, error, unpruned, registry_vars>>

\* The rest of build once the traversal has returned: parse lines 188-189 and
\* build lines 136-139.
BuildFinish ==
    /\ pc = "visit"
    /\ TraversalDone
    /\ LET h == parse(suites, suite, rpa)
           empty == IF ~included_suites /\ ~allow_empty_suite
                    THEN validate_not_empty(h, suite, multi_source_arg(paths))
                    ELSE 0
       IN  IF empty # 0
           THEN /\ pc' = "failed"
                /\ error' = [NoError EXCEPT !.kind = "empty", !.name = h[empty].name]
                /\ suites' = h
                /\ UNCHANGED unpruned
           ELSE /\ pc' = "done"
                /\ unpruned' = h
                /\ suites' = remove_empty_suites(h, suite, preserve_direct_children(paths))
                /\ UNCHANGED error
    /\ UNCHANGED <<paths, self_rpa, included_suites, allow_empty_suite, suite,
                   stack, scopes, rpa, rpa_given, trace, registry_vars>>

\* Builds whose parsers leave the defaults they are given as they are.
Next ==
    \/ BuildStart
    \/ \E o \in parse_suite_file : visit_file(o, {})
    \/ \E init \in BOOLEAN : \E o \in parse_init_file(init) : start_directory(init, o, {})
    \/ end_directory
    \/ BuildFinish

Spec == Init /\ [][Next]_vars

\* Builds whose parsers may write settings to the defaults they are given:
\* existing paths, no override, no filter, empty suites allowed.
InitDefaults ==
    /\ Init
    /\ paths # <<>>
    /\ \A i \in 1..Len(paths) : paths[i].exists
    /\ self_rpa = None
    /\ ~included_suites
    /\ allow_empty_suite

NextDefaults ==
    \/ BuildStart
    \/ \E o \in parse_suite_file : \E w \in SUBSET Settings : visit_file(o, w)
    \/ \E init \in BOOLEAN : \E o \in parse_init_file(init) : \E w \in SUBSET Settings :
          start_directory(init, o, w)
    \/ end_directory
    \/ BuildFinish

SpecDefaults == InitDefaults /\ [][NextDefaults]_vars

----------------------------------------------------------------------------
(* Construction of the builder and of the registry of one build *)

\* Extensions as a caller may write them: '.Rst', 'REST', 'Xyz', '.txt'
ExtensionInputs ==
    {<<".", "R", "s", "t">>, <<"R", "E", "S", "T">>, <<"X", "y", "z">>,
     <<".", "t", "x", "t">>}

\* What a custom parser may declare as its extensions: '.XYZ'; 'xyz' and
\* 'rst'; 'Rst'
DeclaredInputs ==
    {{<<".", "X", "Y", "Z">>}, {<<"x", "y", "z">>, <<"r", "s", "t">>},
     {<<"R", "s", "t">>}}

\* Suffixes of the input paths that are files: '.JSON', '.xyz'
SuffixInputs == {<<".", "J", "S", "O", "N">>, <<".", "x", "y", "z">>}

SeqsUpTo(S, n) == UNION {[1..k -> S] : k \in 0..n}

\* The arguments of TestSuiteBuilder(...) and of build(...), before __init__
\* has run.
InitParsers ==
    /\ paths \in PathInputs \ {<<>>}
    /\ \A i \in 1..Len(paths) : paths[i].exists
    /\ suffix \in [1..Len(paths) -> SuffixInputs \cup {<<>>}]
    /\ \A i \in 1..Len(paths) : paths[i].is_file <=> suffix[i] # <<>>
    /\ included_extensions \in SeqsUpTo(ExtensionInputs, MaxExtensions)
    /\ custom_parsers_arg \in SeqsUpTo(DeclaredInputs, MaxParsers)
    /\ standard_parsers = <<>>
    /\ custom_parsers = <<>>
    /\ parsers = <<>>
    /\ self_rpa = None
    /\ included_suites = FALSE
    /\ allow_empty_suite = TRUE
    /\ pc = "new"
    /\ suites = <<>>
    /\ suite = 0
    /\ stack = <<>>
    /\ scopes = <<>>
    /\ rpa = None
    /\ rpa_given = FALSE
    /\ error = NoError
    /\ trace = <<>>
    /\ unpruned = <<>>

\* TestSuiteBuilder.__init__, lines 88-89
Construct ==
    /\ pc = "new"
    /\ pc' = "start"
    /\ standard_parsers' = get_standard_parsers
    /\ custom_parsers' = get_custom_parsers(custom_parsers_arg)
    /\ UNCHANGED <<paths, self_rpa, included_suites, allow_empty_suite, suites,
                   suite, stack, scopes, rpa, rpa_given, error, trace, unpruned,
                   included_extensions, custom_parsers_arg, suffix, parsers>>

NextParsers ==
    \/ Construct
    \/ BuildStart

SpecParsers == InitParsers /\ [][NextParsers]_vars

----------------------------------------------------------------------------
(* Properties *)

Returned == IF pc = "done" THEN Tree(suites, suite) ELSE {}

FileEvents == {i \in 1..Len(trace) : trace[i].ev = "file"}

\* Positions in the trace of two files that declared different modes
ModePairs ==
    {p \in FileEvents \X FileEvents :
        /\ p[1] < p[2]
        /\ trace[p[1]].declared \in Modes
        /\ trace[p[2]].declared \in Modes
        /\ trace[p[1]].declared # trace[p[2]].declared}

\* C1: without an override, as soon as two visited files have declared
\* different modes the build has failed with a conflict error, raised at the
\* visit of the later file (the last event processed), naming that file's
\* mode as the file's and the earlier file's mode as the one parsed earlier.
C1_ConflictRaised ==
    self_rpa = None =>
        \A p \in ModePairs :
            /\ pc = "failed"
            /\ error.kind = "conflict"
            /\ p[2] = Len(trace)
            /\ error.source = trace[p[2]].source
            /\ error.this = trace[p[2]].declared
            /\ error.that = trace[p[1]].declared

\* A conflict between two files of different directories, with a file that
\* declares no mode visited between them.
C1_Witness ==
    /\ self_rpa = None
    /\ error.kind = "conflict"
    /\ \E p \in ModePairs : \E k \in FileEvents :
          /\ p[1] < k /\ k < p[2]
          /\ trace[k].declared = None
          /\ Len(trace[p[1]].source) # Len(trace[p[2]].source)

\* C2: with an override no conflict error is raised, the parser's mode stays
\* the override, and every file suite visited has the override as its mode.
C2_OverrideWins ==
    rpa_given =>
        /\ error.kind # "conflict"
        /\ rpa = self_rpa
        /\ \A i \in FileEvents :
              trace[i].node # 0 => suites[trace[i].node].rpa = self_rpa

\* Under an override, files declaring tests and tasks have both been visited.
C2_Witness ==
    /\ rpa_given
    /\ pc = "visit"
    /\ ModePairs # {}
    /\ \E i \in FileEvents : trace[i].declared = None

\* A directory suite's mode is unset as end_directory leaves it: it had no
\* child, or the first child it was given had no mode.
FirstChildUnset(h, n) ==
    h[n].suites = <<>> \/ h[h[n].suites[1]].rpa = None

\* The original statement of C3: with an override, every suite of the
\* returned tree has the override as its mode.
C3_AllSuitesAdopt ==
    (pc = "done" /\ rpa_given) =>
        \A n \in Returned : suites[n].rpa = self_rpa

\* C3 (amended): with an override, the root and every file suite of the
\* returned tree have the override as their mode; a directory suite below
\* the root has the override or no mode, and it has no mode exactly when it
\* had no child or the first child it was given had no mode.
C3_OverrideAdopted ==
    (pc = "done" /\ rpa_given) =>
        /\ suites[suite].rpa = self_rpa
        /\ \A n \in Returned \ {suite} :
              /\ suites[n].rpa \in {self_rpa, None}
              /\ ~suites[n].is_dir => suites[n].rpa = self_rpa
              /\ suites[n].is_dir =>
                    (suites[n].rpa = None <=> FirstChildUnset(unpruned, n))

\* A returned tree, built under an override, with a file that declared the
\* other mode and a directory below the root that has children but no mode.
C3_Witness ==
    /\ pc = "done" /\ rpa_given
    /\ \E i \in FileEvents : trace[i].declared \in Modes \ {self_rpa}
    /\ \E n \in Returned \ {suite} :
          suites[n].is_dir /\ suites[n].suites # <<>> /\ suites[n].rpa = None
    /\ \E n \in Returned \ {suite} : suites[n].is_dir /\ suites[n].rpa = self_rpa

ParentStart(j) ==
    trace[CHOOSE i \in 1..Len(trace) :
            /\ trace[i].ev = "start"
            /\ trace[i].source = SubSeq(trace[j].source, 1, Len(trace[j].source) - 1)]

EnterEvents == {j \in 1..Len(trace) : trace[j].ev # "end"}

\* The start event of the directory suite n.
StartOf(n) ==
    trace[CHOOSE i \in 1..Len(trace) : trace[i].ev = "start" /\ trace[i].node = n]

\* C11: what a child writes to the defaults it is given stays with the child:
\* the scope in every open directory's stack frame holds the settings it
\* held when the directory was entered, and every file or directory entered
\* in a directory is given exactly those settings.
C11_DefaultsIsolated ==
    /\ \A k \in 1..Len(stack) : scopes[stack[k][2]] = StartOf(stack[k][1]).held
    /\ \A j \in EnterEvents \ {1} : trace[j].given = ParentStart(j).held


\* on the traversal's events.
IsPrefix(a, b) == Len(a) <= Len(b) /\ SubSeq(b, 1, Len(a)) = a

TestsBelow(prefix) ==
    {i \in FileEvents :
        /\ trace[i].node # 0
        /\ IsPrefix(prefix, trace[i].source)
        /\ suites[trace[i].node].tests > 0}

\* Source of suite n as the traversal gave it (the synthetic root has none).
EnteredAs(n) ==
    trace[CHOOSE i \in 1..Len(trace) : trace[i].ev # "end" /\ trace[i].node = n].source

\* The children of n that the traversal attached and that hold a test
\* somewhere below them, in the order they were attached.
Kept(n) ==
    LET Holds(c) == TestsBelow(EnteredAs(c)) # {}
    IN  SelectSeq(unpruned[n].suites, Holds)

\* C6: the root returned for two or more input paths has an empty name and
\* no source, its direct children are after pruning still one per input path,
\* in input order, the ones without tests included, and below them every
\* suite keeps exactly its children that hold a test.
C6_DirectChildrenPreserved ==
    (pc = "done" /\ Len(paths) > 1) =>
        /\ suites[suite].name = <<>>
        /\ suites[suite].source = <<>>
        /\ Len(suites[suite].suites) = Len(paths)
        /\ \A i \in 1..Len(paths) :
              /\ suites[suites[suite].suites[i]].source = <<i>>
              /\ suites[suites[suite].suites[i]].is_dir = ~paths[i].is_file
        /\ \A n \in Returned \ {suite} : suites[n].suites = Kept(n)

\* Two input paths, the first a directory whose only file has no tests: the
\* directory is still a child of the returned root, the file is gone.
C6_Witness ==
    /\ pc = "done" /\ Len(paths) > 1
    /\ unpruned[unpruned[suite].suites[1]].suites # <<>>
    /\ suites[suites[suite].suites[1]].suites = <<>>
    /\ TestsBelow(<<2>>) # {}

EmptyLeaf(n) == suites[n].tests = 0 /\ suites[n].suites = <<>>

SingleDirectory == Len(paths) = 1 /\ ~paths[1].is_file

\* The original statement of C7: the tree returned for a single directory
\* has no suite, the root included, with neither tests nor child suites.
C7_NoEmptyLeaf ==
    (pc = "done" /\ SingleDirectory) => \A n \in Returned : ~EmptyLeaf(n)

\* C7 (amended): the tree returned for a single directory has no suite below
\* the root with neither tests nor child suites; the root itself is such a
\* suite exactly when the directory holds no test at all, which a successful
\* build allows only when empty suites are allowed or a suite-name filter is
\* in use.
C7_NoEmptyLeafBelowRoot ==
    (pc = "done" /\ SingleDirectory) =>
        /\ \A n \in Returned \ {suite} : ~EmptyLeaf(n)
        /\ EmptyLeaf(suite) <=> TestsBelow(<<>>) = {}
        /\ EmptyLeaf(suite) => (allow_empty_suite \/ included_suites)

\* A single directory with a file without tests next to a file with tests
\* has been built.
C7_Witness ==
    /\ pc = "done" /\ SingleDirectory
    /\ Len(unpruned[suite].suites) > Len(suites[suite].suites)
    /\ suites[suite].suites # <<>>

\* Heap indices grow in traversal order.
Ascending(s) == \A i, j \in 1..Len(s) : i < j => s[i] < s[j]

\* C8: after a single-path build every visited file suite with a test is in
\* the returned tree, every returned suite has exactly those of its children
\* that hold a test somewhere below them, and they are in traversal order.
C8_PruningExact ==
    (pc = "done" /\ Len(paths) = 1) =>
        /\ \A i \in TestsBelow(<<>>) : trace[i].node \in Returned
        /\ \A n \in Returned :
              /\ suites[n].suites = Kept(n)
              /\ Ascending(suites[n].suites)

\* A directory whose first and third entries hold tests and whose second
\* entry, between them, holds none and was removed.
C8_Witness ==
    /\ pc = "done" /\ Len(paths) = 1
    /\ \E n \in Returned :
          /\ Len(unpruned[n].suites) = 3
          /\ suites[n].suites = <<unpruned[n].suites[1], unpruned[n].suites[3]>>

\* The emptiness condition, read off the traversal's events: a single input
\* path under which no file found a test, or several input paths of which at
\* least one has no file with a test at or below it.
NothingToRun ==
    IF Len(paths) = 1 THEN TestsBelow(<<>>) = {}
    ELSE \E i \in 1..Len(paths) : TestsBelow(<<i>>) = {}

\* Every suite the traversal attached is still in the tree below the root.
NothingPruned ==
    \A i \in 1..Len(trace) : trace[i].node # 0 => trace[i].node \in Tree(suites, suite)

\* C9: once the traversal has succeeded the build fails with an emptiness
\* error exactly when no suite-name filter is given, empty suites are not
\* allowed and the root (one input path) or one of its direct children
\* (several) holds no test; the error is raised on the unpruned tree.
C9_NonEmptyValidation ==
    /\ pc = "done" => (included_suites \/ allow_empty_suite \/ ~NothingToRun)
    /\ error.kind = "empty" =>
          /\ ~included_suites /\ ~allow_empty_suite
          /\ NothingToRun
          /\ NothingPruned

\* An emptiness error for two input paths of which the first holds a test and
\* the second holds a file without tests.
C9_Witness ==
    /\ error.kind = "empty"
    /\ Len(paths) > 1
    /\ TestsBelow(<<1>>) # {}
    /\ error.name = <<2>>
    /\ suites[suites[suite].suites[2]].suites # <<>>

\* Positions of the input paths that do not exist.
MissingPaths == {i \in 1..Len(paths) : ~paths[i].exists}

\* C10: when no path is given or some path does not exist, build fails in its
\* first step, before any traversal event is processed or any file parsed,
\* and for missing paths the one error lists all of them in input order.
C10_PathsFailFast ==
    (pc # "start" /\ (paths = <<>> \/ MissingPaths # {})) =>
        /\ pc = "failed"
        /\ trace = <<>> /\ suites = <<>> /\ suite = 0
        /\ error.kind = IF paths = <<>> THEN "nopaths" ELSE "missing"
        /\ Len(error.paths) = Cardinality(MissingPaths)
        /\ \A j \in 1..Len(error.paths) :
              /\ error.paths[j][1] \in MissingPaths
              /\ \A k \in 1..(j - 1) : error.paths[k][1] < error.paths[j][1]

\* The build failed on two missing paths at once.
C10_Witness ==
    /\ pc = "failed"
    /\ Cardinality(MissingPaths) >= 2
    /\ Len(error.paths) >= 2

\* The registry of the build has been made.
Built == pc = "visit"

\* self.parsers[structure.extension] for a file whose suffix is e
resolve(e) == parsers[extension(e)]

\* Positions of the custom parsers that claim the extension e
Claiming(e) ==
    {i \in 1..Len(custom_parsers_arg) :
        \E d \in custom_parsers_arg[i] : extension(d) = extension(e)}

\* C12: an extension that a custom parser claims resolves, in any letter case
\* and with or without leading dot, to a custom parser that claims it, also
\* when a built-in parser handles it and when it is among the included
\* extensions or the suffixes of the input files.
C12_CustomParserFirst ==
    Built =>
        \A e \in ExtensionInputs \cup SuffixInputs \cup UNION DeclaredInputs :
            Claiming(e) # {} =>
                /\ extension(e) \in DOMAIN parsers
                /\ resolve(e).kind = "CustomParser"
                /\ resolve(e).id \in Claiming(e)

Included(e) == \E i \in 1..Len(included_extensions) : included_extensions[i] = e

\* A custom parser claims 'rst', which the built-in parsers handle too, and
\* '.Rst' is among the included extensions.
C12_Witness ==
    /\ Built
    /\ Included(<<".", "R", "s", "t">>)
    /\ Claiming(rst) # {}
    /\ resolve(<<"R", "S", "T">>).kind = "CustomParser"

\* The extensions the build was asked for: the included ones and the
\* suffixes of the input paths that are files.
Requested ==
    {included_extensions[i] : i \in 1..Len(included_extensions)} \cup
    {suffix[i] : i \in {k \in 1..Len(paths) : paths[k].is_file}}

\* The built-in parser of a format, the native format's for any other name.
BuiltIn(x) ==
    IF x \in {rst, rest} THEN RestParser
    ELSE IF x \in {rbt, json} THEN JsonParser
    ELSE RobotParser

\* C13: a requested extension that no custom parser claims resolves to the
\* built-in parser of its format, the two aliases of a format to the same
\* one, and to the robot parser when no built-in parser has it; the key of
\* directories without init file resolves to the no-op directory parser.
C13_BuiltInOrRobot ==
    Built =>
        /\ \A e \in Requested :
              Claiming(e) = {} =>
                  /\ extension(e) \in DOMAIN parsers
                  /\ resolve(e) = BuiltIn(extension(e))
        /\ parsers[NoneKey] = NoInitFileDirectoryParser

\* Both aliases of the markup format are included and unclaimed, one input
\* file has a built-in format's suffix and another a suffix nobody claims.
C13_Witness ==
    /\ Built
    /\ Included(<<".", "R", "s", "t">>) /\ Included(<<"R", "E", "S", "T">>)
    /\ Claiming(rst) = {} /\ Claiming(<<"x", "y", "z">>) = {}
    /\ parsers[rst] = RestParser /\ parsers[rest] = RestParser
    /\ <<".", "J", "S", "O", "N">> \in Requested /\ parsers[json] = JsonParser
    /\ <<".", "x", "y", "z">> \in Requested /\ parsers[<<"x", "y", "z">>] = RobotParser

Constructed == pc # "new"

\* C14: after construction every extension that custom parsers claim is held
\* by the last of the parsers that claim it, and only claimed extensions are
\* held.
C14_LastRegistrationWins ==
    Constructed =>
        /\ DOMAIN custom_parsers =
              {extension(d) : d \in UNION {custom_parsers_arg[i] :
                                              i \in 1..Len(custom_parsers_arg)}}
        /\ \A e \in DOMAIN custom_parsers :
              /\ custom_parsers[e].kind = "CustomParser"
              /\ custom_parsers[e].id \in Claiming(e)
              /\ \A i \in Claiming(e) : i <= custom_parsers[e].id

\* Two parsers claim 'xyz', the first of them is the only one to claim 'rst'.
C14_Witness ==
    /\ Constructed
    /\ Len(custom_parsers_arg) >= 2
    /\ {1, 2} \subseteq Claiming(<<"x", "y", "z">>)
    /\ Claiming(rst) = {1}
    /\ custom_parsers[rst] = CustomParser(1)
    /\ custom_parsers[<<"x", "y", "z">>].id >= 2

\* Positions in the trace of the files that declared a mode.
Declaring == {i \in FileEvents : trace[i].declared \in Modes}

\* The mode of the first file that declared one, None if there is none.
FirstDeclared ==
    IF Declaring = {} THEN None
    ELSE trace[CHOOSE i \in Declaring : \A j \in Declaring : i <= j].declared

\* C15: without an override the running mode is, at every point of the
\* build, the mode of the first visited file that declared one (unset before),
\* whatever directories were entered or exited since; a file that declares
\* no mode keeps its mode unset and raises no error.
C15_FirstSeenWins ==
    self_rpa = None =>
        /\ rpa = FirstDeclared
        /\ \A i \in FileEvents :
              trace[i].declared = None =>
                  /\ trace[i].node # 0
                  /\ suites[trace[i].node].rpa = None
                  /\ i = Len(trace) => error.kind \notin {"parse", "conflict"}

\* A file without mode, then a file declaring one, a directory entered and
\* exited, and a further file: the running mode is still the second file's.
C15_Witness ==
    /\ self_rpa = None /\ pc = "visit"
    /\ Len(trace) >= 5
    /\ trace[2].ev = "file" /\ trace[2].declared = None
    /\ trace[3].ev = "file" /\ trace[3].declared \in Modes
    /\ trace[4].ev = "start" /\ trace[5].ev = "file"
    /\ trace[Len(trace)].ev = "end"
    /\ rpa = trace[3].declared

\* The step processes an exit-directory event.
ExitStep ==
    /\ Len(trace') = Len(trace) + 1
    /\ trace'[Len(trace')].ev = "end"

\* C16: when a directory is exited its suite takes the mode of its first
\* child if its own mode is unset and it has a child, and keeps its mode
\* otherwise; nothing else of any suite changes.
C16_FirstChildWins ==
    [][ExitStep =>
        LET n == trace'[Len(trace')].node
            first == suites[n].suites[1]
        IN  /\ suites'[n].rpa = IF suites[n].rpa = None /\ suites[n].suites # <<>>
                                 THEN suites[first].rpa
                                 ELSE suites[n].rpa
            /\ \A k \in DOMAIN suites : k # n => suites'[k] = suites[k]
            /\ suites'[n] = [suites[n] EXCEPT !.rpa = suites'[n].rpa]
            /\ DOMAIN suites' = DOMAIN suites]_vars

\* A directory has just been exited whose first child has no mode and whose
\* second child has one: the directory's mode is unset.
C16_Witness ==
    /\ pc = "visit" /\ trace # <<>>
    /\ trace[Len(trace)].ev = "end"
    /\ LET n == trace[Len(trace)].node
       IN  /\ Len(suites[n].suites) >= 2
           /\ suites[suites[n].suites[1]].rpa = None
           /\ suites[suites[n].suites[2]].rpa \in Modes
           /\ suites[n].rpa = None

\* The suites of the directories that are open after the first k events,
\* outermost first, read off the events alone.
RECURSIVE OpenAfter(_)
OpenAfter(k) ==
    IF k = 0 THEN <<>>
    ELSE LET before == OpenAfter(k - 1)
         IN  IF trace[k].ev = "start" /\ trace[k].node # 0
             THEN Append(before, trace[k].node)
             ELSE IF trace[k].ev = "end"
             THEN SubSeq(before, 1, Len(before) - 1)
             ELSE before

\* The events whose file or directory was built without a data error.
Entered ==
    {i \in EnterEvents :
        /\ trace[i].node # 0
        /\ ~(i = Len(trace) /\ error.kind = "conflict")}

\* The suites entered while p was the innermost open directory, in the order
\* of their events.
ChildrenByTrace(p) ==
    LET Under(i) == i \in Entered /\ OpenAfter(i - 1) # <<>>
                    /\ OpenAfter(i - 1)[Len(OpenAfter(i - 1))] = p
        at == SelectSeq([i \in 1..Len(trace) |-> i], Under)
    IN  [j \in 1..Len(at) |-> trace[at[j]].node]

\* The heap as the traversal left it, before any pruning.
AsBuilt == IF pc = "done" THEN unpruned ELSE suites

\* Number of child slots, over all suites, that hold n.
TimesChild(n) ==
    Cardinality({q \in (DOMAIN AsBuilt) \X (1..MaxNodes) :
                    q[2] <= Len(AsBuilt[q[1]].suites) /\ AsBuilt[q[1]].suites[q[2]] = n})

\* C17: after any prefix of a traversal the first node visited is the root,
\* every suite's children are exactly the suites entered while it was the
\* innermost open directory, in traversal order, the root is nobody's child
\* and every other suite is a child of exactly one suite.
C17_TreeMirrorsTraversal ==
    /\ suite = IF 1 \in Entered THEN trace[1].node ELSE 0
    /\ \A i \in Entered :
          /\ AsBuilt[trace[i].node].suites = ChildrenByTrace(trace[i].node)
          /\ TimesChild(trace[i].node) = IF i = 1 THEN 0 ELSE 1
          /\ trace[i].node \in Tree(AsBuilt, suite)

\* A directory holding a file has been entered and exited, and a file was
\* visited after it in the root.
C17_Witness ==
    /\ pc = "visit" /\ Len(stack) = 1
    /\ Len(suites[suite].suites) = 2
    /\ suites[suites[suite].suites[1]].suites # <<>>
    /\ ~suites[suites[suite].suites[2]].is_dir

StartEvents == {i \in 1..Len(trace) : trace[i].ev = "start" /\ trace[i].node # 0}

EndEvents == {i \in 1..Len(trace) : trace[i].ev = "end"}

\* C18: at every point the stack holds, outermost first, the directories that
\* were entered and not yet exited, each with the TestDefaults object that
\* was derived for it when it was entered and no other frame shares; so a
\* file leaves the stack as it is, an exit pops the frame of the matching
\* enter, and the stack is empty once every entered directory was exited.
C18_StackDiscipline ==
    /\ [k \in 1..Len(stack) |-> stack[k][1]] = OpenAfter(Len(trace))
    /\ \A k \in 1..Len(stack) :
          /\ stack[k][2] = StartOf(stack[k][1]).defaults
          /\ \A l \in 1..Len(stack) : stack[l][2] = stack[k][2] => l = k
    /\ Cardinality(StartEvents) = Cardinality(EndEvents) => stack = <<>>
    /\ pc = "done" => stack = <<>>

\* Two directories are open, a sibling of the inner one was entered and
\* exited before, and a file has just been visited in the inner one.
C18_Witness ==
    /\ pc = "visit" /\ Len(stack) = 2
    /\ EndEvents # {}
    /\ trace[Len(trace)].ev = "file"
    /\ Len(suites[stack[2][1]].suites) = 1

Attached(n) ==
    \/ suite = n
    \/ \E m \in DOMAIN suites : \E k \in DOMAIN suites[m].suites : suites[m].suites[k] = n

\* What holds once a parser failure or a mode conflict was raised: the build
\* has failed and returns nothing, the event that raised it is the last one
\* processed, the suite of that event (none was made if the parser failed) is
\* attached nowhere, and the error names the file visited, the init file of
\* the directory entered.
C19_Aborted ==
    error.kind \in {"parse", "conflict"} =>
        LET e == trace[Len(trace)]
        IN  /\ pc = "failed"
            /\ Returned = {}
            /\ e.ev \in {"file", "start"}
            /\ error.kind = "parse" <=> e.declared = "error"
            /\ error.kind = "parse" => e.node = 0
            /\ error.kind = "conflict" =>
                  /\ e.ev = "file"
                  /\ e.node = Len(suites)
                  /\ ~Attached(e.node)
                  /\ e.declared \in Modes /\ e.declared # rpa
            /\ \A i \in 1..Len(trace) : trace[i].node # 0 /\ trace[i].ev # "end" =>
                  (Attached(trace[i].node) <=> i < Len(trace) \/ error.kind = "parse")
            /\ error.source = IF e.ev = "start" THEN e.source \o <<0>> ELSE e.source

\* C19: a parser failure or a mode conflict aborts the build at once: the
\* failing node's suite is not attached, nothing is returned, the error is
\* prefixed with the source being processed (the later file of a conflict,
\* the init file of a directory), and a failed build takes no further step.
C19_ErrorAborts == [](C19_Aborted) /\ [][pc # "failed"]_vars

\* The init file of a directory fails to parse after a sibling file was
\* attached to the enclosing directory.
C19_Witness ==
    /\ error.kind = "parse"
    /\ trace[Len(trace)].ev = "start"
    /\ stack # <<>>
    /\ suites[Last(stack)[1]].suites # <<>>
    /\ error.source = trace[Len(trace)].source \o <<0>>

\* The step that follows the traversal
FinishStep ==
    /\ pc = "visit"
    /\ pc' # "visit"
    /\ trace' = trace

\* C20: the step that follows a completed traversal leaves on the root the
\* override if one was given and otherwise the mode of the first visited
\* file that declared one (unset if none did), whatever the root's mode was
\* before, and changes the mode of no other suite.
C20_RootModeOverwritten ==
    [][FinishStep =>
        /\ stack = <<>> /\ suite # 0
        /\ DOMAIN suites' = DOMAIN suites
        /\ suites'[suite].rpa = IF self_rpa # None THEN self_rpa ELSE FirstDeclared
        /\ \A n \in DOMAIN suites \ {suite} : suites'[n].rpa = suites[n].rpa
    ]_vars

\* A tree returned by a build with an override whose root directory took an
\* unset mode from its first child, a directory, on exit, and has another
\* suite without a mode below it.
C20_Witness ==
    /\ pc = "done" /\ rpa_given
    /\ unpruned[suite].is_dir
    /\ Len(unpruned[suite].suites) > 1
    /\ unpruned[unpruned[suite].suites[1]].rpa = None
    /\ suites[suite].rpa = self_rpa

====
